---------------------------- MODULE Spec2Model ----------------------------
(***************************************************************************)
(* A model of src/markdown2artical.py: the conversion of a Markdown        *)
(* manuscript (parsed to an HTML tree) into a styled Word document.        *)
(*                                                                         *)
(* Text is a sequence of one-character strings.  TLA+ strings are ASCII,   *)
(* so a CJK character is written as one pinyin token that stands for one   *)
(* character: "zhai" "yao" (摘要), "di" "zhang" (第…章), "yi" (一),        *)
(* "can" "kao" "wen" "xian" (参考文献), "zhi" "xie" (致谢), "tu" (图),     *)
(* "biao" (表), and "zh" for any other script character.                   *)
(***************************************************************************)
EXTENDS Integers, Sequences, FiniteSets, TLC

VARIABLES
    \* --- the Inline Text Segmenter (add_styled_paragraph), called alone ---
    text_content,      \* its text argument
    is_heading,        \* its is_heading argument
    is_reference,      \* its is_reference argument
    seg_runs,          \* the runs of the paragraph it returned
    seg_pc,            \* "call" before the call, "returned" after, "idle"
    \* --- the input of one conversion: the parsed tree ---
    elements,          \* list(soup.children): the top-level nodes
    fn_items,          \* the <li> of div.footnote, in document order
    \* --- module-level state ---
    ReferencesList,    \* the global list of line 522
    \* --- markdown_to_word ---
    doc,               \* the body of the output document: paragraphs, tables
    sections,          \* doc.sections
    idx,               \* the traversal index (0-based, as in the source)
    main_text_started,
    toc_items,
    current_chapter_num_str,
    pc,                \* "main", "start", "loop", "raised", "done", "caught",
                       \* "exited", "idle"
    calls,             \* markdown_to_word calls begun in this process
    \* --- the surroundings of the conversion ---
    temp_files,        \* the files in temp_dir_for_mermaid
    renderer_calls,    \* the sources handed to the renderer, in order
    md_file_exists,    \* os.path.exists(args.md_file)
    saved,             \* doc.save(output_docx_path) has returned
    exit_status        \* <<>> while the process runs, then <<its status>>

seg_vars == <<text_content, is_heading, is_reference, seg_runs, seg_pc>>
conv_vars == <<elements, fn_items, ReferencesList, doc, sections, idx,
               main_text_started, toc_items, current_chapter_num_str, pc, calls>>
env_vars == <<temp_files, renderer_calls, md_file_exists, saved, exit_status>>
vars == <<seg_vars, conv_vars, env_vars>>

---------------------------------------------------------------------------
(* Bounds of the model *)

\* longest text handed to the segmenter
MaxLen == 5

---------------------------------------------------------------------------
(* Characters and the two character classes of add_styled_paragraph *)

Digits == {"0", "1", "2", "3", "4", "5", "6", "7", "8", "9"}
Letters ==
    {"a", "b", "c", "d", "e", "f", "g", "h", "i", "j", "k", "l", "m",
     "n", "o", "p", "q", "r", "s", "t", "u", "v", "w", "x", "y", "z",
     "A", "B", "C", "D", "E", "F", "G", "H", "I", "J", "K", "L", "M",
     "N", "O", "P", "Q", "R", "S", "T", "U", "V", "W", "X", "Y", "Z"}
Punct == {"[", "]", "^", ",", "-", ".", ":", "?", "%"}
Whitespace == {" ", "\n"}

\* the class of line 137: [a-zA-Z0-9!"#$%&'()*+,-./:;<=>?@\[\\\]^_`{|}~]
AsciiNoSpace == Digits \cup Letters \cup Punct

\* the class of lines 106 and 112: the same with \s
AsciiOrSpace == AsciiNoSpace \cup Whitespace

\* str.strip()
RECURSIVE LStrip(_)
LStrip(s) == IF s # <<>> /\ Head(s) \in Whitespace THEN LStrip(Tail(s)) ELSE s

RECURSIVE RStrip(_)
RStrip(s) ==
    IF s # <<>> /\ s[Len(s)] \in Whitespace
    THEN RStrip(SubSeq(s, 1, Len(s) - 1)) ELSE s

Strip(s) == LStrip(RStrip(s))

\* "".join(parts)
RECURSIVE Concat(_)
Concat(ss) == IF ss = <<>> THEN <<>> ELSE Head(ss) \o Concat(Tail(ss))

\* the number of characters from position i on that are in the class
RECURSIVE RunLen(_, _, _)
RunLen(s, i, cls) ==
    IF i <= Len(s) /\ s[i] \in cls THEN 1 + RunLen(s, i + 1, cls) ELSE 0

\* the number of characters from position i on that are not in it
RECURSIVE GapLen(_, _, _)
GapLen(s, i, cls) ==
    IF i <= Len(s) /\ s[i] \notin cls THEN 1 + GapLen(s, i + 1, cls) ELSE 0

(***************************************************************************)
(* re.split(r'([class]+)', s) followed by the loop's "if not part:         *)
(* continue": the maximal runs of class characters and the stretches       *)
(* between them, in order, the empty strings left out.                     *)
(***************************************************************************)
RECURSIVE SplitFrom(_, _, _)
SplitFrom(s, i, cls) ==
    IF i > Len(s) THEN <<>>
    ELSE LET n == IF s[i] \in cls THEN RunLen(s, i, cls)
                  ELSE GapLen(s, i, cls)
         IN <<SubSeq(s, i, i + n - 1)>> \o SplitFrom(s, i + n, cls)

re_split(s, cls) == SplitFrom(s, 1, cls)

\* re.match(r'^[class]+$', part)
FullMatch(part, cls) ==
    part # <<>> /\ \A i \in 1..Len(part) : part[i] \in cls

---------------------------------------------------------------------------
(* The two citation patterns of lines 115 and 116 *)

DigitRun(s, i) == RunLen(s, i, Digits)

NoMatch == [ok |-> FALSE, g2 |-> <<>>]

\* re.match(r'(\[\^?)(\d+)(\])', part): anchored at the start only
citation_match(part) ==
    LET hat == IF Len(part) >= 2 /\ part[2] = "^" THEN 1 ELSE 0
        from == 2 + hat
        n == DigitRun(part, from)
    IN IF /\ part # <<>>
          /\ part[1] = "["
          /\ n >= 1
          /\ from + n <= Len(part)
          /\ part[from + n] = "]"
       THEN [ok |-> TRUE, g2 |-> SubSeq(part, from, from + n - 1)]
       ELSE NoMatch

\* the end of (?:<sep>\d+)* from position i on (greedy)
RECURSIVE SepGroupsEnd(_, _, _)
SepGroupsEnd(s, i, sep) ==
    IF i <= Len(s) /\ s[i] = sep /\ DigitRun(s, i + 1) >= 1
    THEN SepGroupsEnd(s, i + 1 + DigitRun(s, i + 1), sep)
    ELSE i

\* re.match(r'(\[)(\d+(?:,\d+)*(?:-\d+)*)(\])', part)
ref_match_in_text(part) ==
    LET n == DigitRun(part, 2)
        afterCommas == SepGroupsEnd(part, 2 + n, ",")
        close == SepGroupsEnd(part, afterCommas, "-")
    IN IF /\ part # <<>>
          /\ part[1] = "["
          /\ n >= 1
          /\ close <= Len(part)
          /\ part[close] = "]"
       THEN [ok |-> TRUE, g2 |-> SubSeq(part, 2, close - 1)]
       ELSE NoMatch

---------------------------------------------------------------------------
(* add_styled_paragraph: the runs it adds to the paragraph *)

\* a run: its text, run.font.superscript, and the branch that made it
Run(t, sup, kind) == [text |-> t, superscript |-> sup, kind |-> kind]

\* lines 137-148: a part that is not all of the first class
ScriptPartRuns(part) ==
    LET sub_parts == re_split(part, AsciiNoSpace)
    IN [k \in 1..Len(sub_parts) |->
           IF FullMatch(sub_parts[k], AsciiNoSpace)
           THEN Run(sub_parts[k], FALSE, "ascii")
           ELSE Run(sub_parts[k], FALSE, "script")]

\* lines 108-148: the runs one part yields
PartRuns(part, heading) ==
    IF citation_match(part).ok
    THEN <<Run(<<"[">> \o citation_match(part).g2 \o <<"]">>, TRUE, "citation")>>
    ELSE IF ref_match_in_text(part).ok /\ ~heading
    THEN <<Run(<<"[">> \o ref_match_in_text(part).g2 \o <<"]">>, FALSE, "ref")>>
    ELSE IF FullMatch(part, AsciiOrSpace)
    THEN <<Run(part, FALSE, "ascii")>>
    ELSE ScriptPartRuns(part)

RECURSIVE PartsRuns(_, _)
PartsRuns(parts, heading) ==
    IF parts = <<>> THEN <<>>
    ELSE PartRuns(Head(parts), heading) \o PartsRuns(Tail(parts), heading)

\* as add_styled_paragraph_runs, with \s missing from the class of line 106
add_styled_paragraph_runs_no_space(text, heading, reference) ==
    IF reference THEN <<Run(text, FALSE, "verbatim")>>
    ELSE PartsRuns(re_split(text, AsciiNoSpace), heading)

\* lines 100-149
add_styled_paragraph_runs(text, heading, reference) ==
    IF reference THEN <<Run(text, FALSE, "verbatim")>>
    ELSE PartsRuns(re_split(text, AsciiOrSpace), heading)

\* the texts of a paragraph's runs, concatenated
RunsText(rs) == Concat([k \in 1..Len(rs) |-> rs[k].text])

---------------------------------------------------------------------------
(* The segmenter called alone, on every text of the bounded alphabet *)

\* a Latin letter, a digit, the marker punctuation, a blank, a script character
SegAlphabet == {"a", "1", "[", "^", "]", ",", "-", " ", "zh"}

Texts == UNION {[1..n -> SegAlphabet] : n \in 0..MaxLen}

ConvIdle ==
    /\ elements = <<>>
    /\ fn_items = <<>>
    /\ ReferencesList = <<>>
    /\ doc = <<>>
    /\ sections = <<>>
    /\ idx = 0
    /\ main_text_started = FALSE
    /\ toc_items = <<>>
    /\ current_chapter_num_str = <<>>
    /\ pc = "idle"
    /\ calls = 0
    /\ temp_files = {}
    /\ renderer_calls = <<>>
    /\ md_file_exists = TRUE
    /\ saved = FALSE
    /\ exit_status = <<>>

SegInit ==
    /\ text_content \in Texts
    /\ is_heading \in BOOLEAN
    /\ is_reference \in BOOLEAN
    /\ seg_runs = <<>>
    /\ seg_pc = "call"
    /\ ConvIdle

\* one call of add_styled_paragraph (lines 87-149)
AddStyledParagraph ==
    /\ seg_pc = "call"
    /\ seg_runs' = add_styled_paragraph_runs(text_content, is_heading, is_reference)
    /\ seg_pc' = "returned"
    /\ UNCHANGED <<text_content, is_heading, is_reference, conv_vars, env_vars>>

SegNext == AddStyledParagraph

SegSpec == SegInit /\ [][SegNext]_vars

---------------------------------------------------------------------------
(* Claims about the Inline Text Segmenter, checked under SegSpec *)

Returned == seg_pc = "returned" /\ ~is_reference

\* C1: in body or heading role, the texts of the emitted runs, concatenated
\* in order, are the input text: nothing dropped, added or rewritten.
C1_RoundTrip == Returned => RunsText(seg_runs) = text_content

\* a hat-prefixed marker [^N] starts at position i of s
HatMarkerAt(s, i) ==
    /\ i + 3 <= Len(s)
    /\ s[i] = "["
    /\ s[i + 1] = "^"
    /\ DigitRun(s, i + 2) >= 1
    /\ i + 2 + DigitRun(s, i + 2) <= Len(s)
    /\ s[i + 2 + DigitRun(s, i + 2)] = "]"

\* the N of the marker that starts at position i
HatMarkerNumber(s, i) == SubSeq(s, i + 2, i + 1 + DigitRun(s, i + 2))

\* C2: a marker [^N] in body-role text yields a run [N] with the superscript
\* flag set; in heading-role text no run has the superscript flag set.
C2_HatMarker ==
    Returned =>
        \A i \in 1..Len(text_content) :
            HatMarkerAt(text_content, i) =>
                IF is_heading
                THEN \A k \in 1..Len(seg_runs) : ~seg_runs[k].superscript
                ELSE \E k \in 1..Len(seg_runs) :
                        /\ seg_runs[k].superscript
                        /\ seg_runs[k].text =
                             <<"[">> \o HatMarkerNumber(text_content, i) \o <<"]">>

OnlyLatin(s) == \A i \in 1..Len(s) : s[i] \in AsciiOrSpace
OnlyScript(s) == \A i \in 1..Len(s) : s[i] \notin AsciiOrSpace

\* C3 as stated: a text of Latin/symbol characters only, and a text of
\* script characters only, yields exactly one run.
C3_OneRun ==
    Returned /\ (OnlyLatin(text_content) \/ OnlyScript(text_content))
        => Len(seg_runs) = 1

\* C3 amended: the same for every text that is not empty (the empty text,
\* which the spacer paragraphs pass, yields no run).
C3_OneRunNonEmpty ==
    Returned /\ text_content # <<>>
             /\ (OnlyLatin(text_content) \/ OnlyScript(text_content))
        => Len(seg_runs) = 1

\* a Latin text with a blank in it has been segmented into its one run
C3_Witness ==
    /\ Returned
    /\ text_content = <<"a", " ", "a">>
    /\ seg_runs = <<Run(text_content, FALSE, "ascii")>>

---------------------------------------------------------------------------
(* Text helpers used by the block handlers *)

\* sub in s
Contains(sub, s) ==
    \E i \in 1..(Len(s) - Len(sub) + 1) : SubSeq(s, i, i + Len(sub) - 1) = sub

\* s.split(sep), sep one character
RECURSIVE SplitOn(_, _)
SplitOn(s, sep) ==
    LET n == GapLen(s, 1, {sep})
    IN IF n = Len(s) THEN <<s>>
       ELSE <<SubSeq(s, 1, n)>> \o SplitOn(SubSeq(s, n + 2, Len(s)), sep)

\* sep.join(parts)
RECURSIVE Join(_, _)
Join(parts, sep) ==
    IF parts = <<>> THEN <<>>
    ELSE IF Len(parts) = 1 THEN parts[1]
    ELSE parts[1] \o <<sep>> \o Join(Tail(parts), sep)

\* s.replace(old, ""), old not empty
RECURSIVE Remove(_, _)
Remove(s, old) ==
    IF Len(s) < Len(old) THEN s
    ELSE IF SubSeq(s, 1, Len(old)) = old
    THEN Remove(SubSeq(s, Len(old) + 1, Len(s)), old)
    ELSE <<Head(s)>> \o Remove(Tail(s), old)

\* str(n) for a natural number
RECURSIVE Str(_)
Str(n) == IF n < 10 THEN <<ToString(n)>> ELSE Str(n \div 10) \o <<ToString(n % 10)>>

\* what .* matches from position i on: up to the end of the line
DotStar(s, i) == SubSeq(s, i, i + GapLen(s, i, {"\n"}) - 1)

LabelNoMatch == [ok |-> FALSE, g1 |-> <<>>, g2 |-> <<>>]

\* re.match(r'(<lead>\s*[\d\.]+)\s*(.*)', s) with lead 图 or 表, from
\* position i on (lines 308, 725, 814)
LabelMatchAt(s, i, lead) ==
    LET ws == RunLen(s, i + 1, Whitespace)
        n == RunLen(s, i + 1 + ws, Digits \cup {"."})
        last == i + ws + n
        rest == last + 1 + RunLen(s, last + 1, Whitespace)
    IN IF i <= Len(s) /\ s[i] = lead /\ n >= 1
       THEN [ok |-> TRUE, g1 |-> SubSeq(s, i, last), g2 |-> DotStar(s, rest)]
       ELSE LabelNoMatch

LabelMatch(s, lead) == LabelMatchAt(s, 1, lead)

---------------------------------------------------------------------------
(* The output document: its body units and its sections *)

\* doc.add_paragraph(): a paragraph of the body, with what the handlers set.
\* role names the place in the source that emitted it; indents are in mm,
\* 0 for None; sect is the index of the section the unit lies in.
ParaBase ==
    [kind |-> "p", role |-> "", style |-> "Normal", runs |-> <<>>,
     alignment |-> "LEFT", first_line_indent |-> 0, left_indent |-> 0,
     page_break_before |-> FALSE, field |-> "", picture |-> FALSE,
     grid |-> <<>>, sect |-> 0]

Para(role, runs) == [ParaBase EXCEPT !.role = role, !.runs = runs]

\* p.add_run(text)
Direct(t) == Run(t, FALSE, "direct")

\* add_styled_paragraph(doc, text, ..., first_line_indent_cm, is_reference)
Styled(role, text, fli, alignment, reference) ==
    [ParaBase EXCEPT !.role = role,
                     !.runs = add_styled_paragraph_runs(text, FALSE, reference),
                     !.first_line_indent = fli,
                     !.alignment = alignment]

\* add_styled_paragraph(doc, "", ..., space_after_pt=6): the empty line
Spacer == Styled("spacer", <<>>, 0, "LEFT", FALSE)

\* a header or a footer of a section
HeaderFooter(linked, text, centered, border, page_field) ==
    [linked |-> linked, text |-> text, centered |-> centered,
     border |-> border, page_field |-> page_field]

\* a header or footer with no definition of its own (inherited)
Inherited == HeaderFooter(TRUE, <<>>, FALSE, FALSE, FALSE)

\* a section as Document() and doc.add_section() make it
NewSection == [header |-> Inherited, footer |-> Inherited]

\* config['Artical-Header'] (lines 43-44, 857)
header_text_content == <<"T", "i", "t", "l", "e">>

---------------------------------------------------------------------------
(* The state the handlers of markdown_to_word work on *)

State ==
    [doc |-> doc, sections |-> sections, idx |-> idx,
     main_text_started |-> main_text_started, toc_items |-> toc_items,
     current_chapter_num_str |-> current_chapter_num_str,
     temp_files |-> temp_files, renderer_calls |-> renderer_calls,
     raised |-> FALSE]

\* the units are appended to the body, in the current (last) section
Emit(st, units) ==
    [st EXCEPT !.doc = @ \o [k \in 1..Len(units) |->
                               [units[k] EXCEPT !.sect = Len(st.sections) - 1]]]

\* doc.add_section(WD_SECTION_START.NEW_PAGE)
add_section(st) == [st EXCEPT !.sections = @ \o <<NewSection>>]

\* toc_items.append({'level': level, 'text': text, 'page': '?'})
toc_append(st, level, text) ==
    [st EXCEPT !.toc_items = @ \o <<[level |-> level, text |-> text]>>]

\* as open_main_section, without the test of main_text_started
open_main_section_always(st) ==
    [add_section(st) EXCEPT !.main_text_started = TRUE]

\* as open_main_section, but the section break itself is forgotten
open_main_section_flag_only(st) == [st EXCEPT !.main_text_started = TRUE]

\* lines 644-646, 660-662, 682-684
open_main_section(st) ==
    IF ~st.main_text_started
    THEN [add_section(st) EXCEPT !.main_text_started = TRUE]
    ELSE st

---------------------------------------------------------------------------
(* add_heading (lines 151-216) *)

\* re.match(r'([\d\.]+)\s*(.*)', text) of levels 2 and 3: the runs
NumberedHeadingRuns(text) ==
    LET n == RunLen(text, 1, Digits \cup {"."})
        rest == n + 1 + RunLen(text, n + 1, Whitespace)
    IN IF n >= 1
       THEN <<Direct(SubSeq(text, 1, n) \o <<" ">>), Direct(DotStar(text, rest))>>
       ELSE <<Direct(text)>>

\* the paragraph add_heading adds for a level
HeadingPara(text, level) ==
    IF level = 1
    THEN [ParaBase EXCEPT
            !.role = "heading1", !.style = "Heading 1",
            !.alignment = "CENTER", !.page_break_before = TRUE,
            !.runs = <<Direct(SplitOn(text, " ")[1] \o
                              (IF Contains(<<" ">>, text) THEN <<" ">>
                               ELSE <<" ", " ">>)),
                       Direct(Join(Tail(SplitOn(text, " ")), " "))>>]
    ELSE IF level = 2
    THEN [ParaBase EXCEPT
            !.role = "heading2", !.style = "Heading 2",
            !.alignment = "CENTER", !.runs = NumberedHeadingRuns(text)]
    ELSE IF level = 3
    THEN [ParaBase EXCEPT
            !.role = "heading3", !.style = "Heading 3",
            !.runs = NumberedHeadingRuns(text)]
    ELSE [ParaBase EXCEPT !.role = "heading4", !.runs = <<Direct(text)>>]

\* _, toc_entry_text = add_heading(doc, text, level); toc_items.append(...)
\* for levels 1 to 3; level 4 returns None and records nothing
add_heading(st, text, level) ==
    LET emitted == Emit(st, <<HeadingPara(text, level)>>)
    IN IF level <= 3 THEN toc_append(emitted, level, text) ELSE emitted

---------------------------------------------------------------------------
(* add_toc_placeholder (lines 480-520) *)

add_toc_placeholder(st) ==
    Emit(st, <<[ParaBase EXCEPT
                  !.role = "toc_title", !.alignment = "CENTER",
                  !.runs = <<Direct(<<"mu", " ", " ", " ", "lu">>)>>],
               [ParaBase EXCEPT
                  !.role = "toc_field", !.field = "TOC",
                  !.runs = <<Direct(<<>>)>>]>>)

---------------------------------------------------------------------------
(* add_image_with_caption (lines 255-301) *)

\* lines 261-266, 279-284, 291-298: the caption line
CaptionPara(fig_num_text, caption_text) ==
    [ParaBase EXCEPT
       !.role = "caption", !.alignment = "CENTER",
       !.runs = <<Direct(fig_num_text \o <<" ">>), Direct(caption_text)>>]

\* lines 272-274: the centered paragraph that holds the picture; when
\* add_picture raises, the paragraph and its empty run stay in the body
ImagePara(embedded) ==
    [ParaBase EXCEPT
       !.role = "image", !.alignment = "CENTER", !.picture = embedded,
       !.runs = <<Direct(<<>>)>>]

\* as add_image_with_caption, but a missing file only warns: no caption
add_image_with_caption_skip_missing(st, src, caption_text, fig_num_text) ==
    IF src = "missing"
    THEN st
    ELSE Emit(st, <<ImagePara(src = "ok"),
                    CaptionPara(fig_num_text, caption_text), Spacer>>)

\* src is what the file at the path is: "ok" (an image python-docx embeds),
\* "missing" (os.path.exists is false), "corrupt" (add_picture raises)
add_image_with_caption(st, src, caption_text, fig_num_text) ==
    IF src = "missing"
    THEN Emit(st, <<CaptionPara(fig_num_text, caption_text), Spacer>>)
    ELSE IF src = "corrupt"
    THEN Emit(st, <<ImagePara(FALSE),
                    CaptionPara(fig_num_text, caption_text), Spacer>>)
    ELSE Emit(st, <<ImagePara(TRUE),
                    CaptionPara(fig_num_text, caption_text), Spacer>>)

FallbackFigNum == <<"tu", "?", ".", "?">>
UntitledImage ==
    <<"U", "n", "t", "i", "t", "l", "e", "d", " ", "I", "m", "a", "g", "e">>

\* lines 719-732: a paragraph node with an <img>
image_paragraph(st, img) ==
    LET caption_match == LabelMatch(img.alt, "tu")
    IN IF caption_match.ok
       THEN add_image_with_caption(st, img.src, Strip(caption_match.g2),
                                   Strip(caption_match.g1))
       ELSE add_image_with_caption(
                st, img.src,
                IF img.alt # <<>> THEN img.alt ELSE UntitledImage,
                FallbackFigNum)

---------------------------------------------------------------------------
(* Tables: lines 783-798 and add_table_with_caption (lines 303-403) *)

\* \[(biao.*?)] matches at position i of s
BracketCaptionAt(s, i) ==
    /\ i + 1 <= Len(s)
    /\ s[i] = "["
    /\ s[i + 1] = "biao"
    /\ i + 2 + GapLen(s, i + 2, {"]", "\n"}) <= Len(s)
    /\ s[i + 2 + GapLen(s, i + 2, {"]", "\n"})] = "]"

\* re.search(r'\[(biao.*?)]', s).group(1), or "" when there is no match
BracketCaption(s) ==
    LET at == {i \in 1..Len(s) : BracketCaptionAt(s, i)}
    IN IF at = {} THEN <<>>
       ELSE LET i == CHOOSE j \in at : \A k \in at : j <= k
            IN SubSeq(s, i + 1, i + 1 + GapLen(s, i + 2, {"]", "\n"}))

UnknownTable ==
    <<"biao", "?", ".", "?", " ", "U", "n", "k", "n", "o", "w", "n", " ",
      "T", "a", "b", "l", "e">>
FallbackTableNum == <<"biao", "X", ".", "X">>

Bracketed(caption_text_full) == <<"[">> \o caption_text_full \o <<"]">>

\* lines 330-331, then lines 362-363: the first header text as shown
FirstHeader(h, table_title_text, caption_text_full) ==
    LET cleaned == IF Contains(table_title_text, h)
                   THEN Strip(Remove(h, Bracketed(caption_text_full)))
                   ELSE h
    IN IF Contains(Bracketed(caption_text_full), cleaned)
       THEN Strip(Remove(cleaned, Bracketed(caption_text_full)))
       ELSE cleaned

\* lines 328-331 and 358-371: the header texts as the header row shows them
TableHeaders(th, table_title_text, caption_text_full) ==
    [i \in 1..Len(th) |->
        IF i = 1 THEN FirstHeader(th[1], table_title_text, caption_text_full)
        ELSE th[i]]

\* lines 344-400: the cells of the table python-docx ends up with
TableGrid(headers, rows_data) ==
    LET cols == Len(IF headers # <<>> THEN headers ELSE rows_data[1])
        Fit(row) == [c \in 1..cols |-> IF c <= Len(row) THEN row[c] ELSE <<>>]
    IN (IF headers # <<>> THEN <<headers>> ELSE <<>>)
       \o [r \in 1..Len(rows_data) |-> Fit(rows_data[r])]

\* el is the table node: th (the texts of its <th>), tbody (whether it has
\* a <tbody>), rows (the cell texts of the <tr> of the tbody)
add_table_with_caption(st, el, caption_text_full) ==
    LET match == LabelMatch(caption_text_full, "biao")
        table_num_text == IF match.ok THEN Strip(match.g1) ELSE FallbackTableNum
        table_title_text == IF match.ok THEN Strip(match.g2) ELSE caption_text_full
        captioned ==
            Emit(st, <<[ParaBase EXCEPT
                          !.role = "table_caption", !.alignment = "CENTER",
                          !.runs = <<Direct(table_num_text \o <<" ">>),
                                     Direct(table_title_text)>>]>>)
        headers == TableHeaders(el.th, table_title_text, caption_text_full)
    IN IF ~el.tbody
       THEN \* line 340: None.find_all raises AttributeError
            [captioned EXCEPT !.raised = TRUE]
       ELSE IF el.rows = <<>> /\ headers = <<>>
       THEN \* lines 347-349: nothing to show, the table is skipped
            captioned
       ELSE Emit(captioned,
                 <<[ParaBase EXCEPT
                      !.kind = "table", !.role = "table", !.style = "Table Grid",
                      !.grid = TableGrid(headers, el.rows)],
                   Spacer>>)

\* lines 783-798
table_node(st, el) ==
    LET caption_text_full == IF el.th # <<>> THEN BracketCaption(el.th[1]) ELSE <<>>
    IN IF caption_text_full # <<>>
       THEN add_table_with_caption(st, el, caption_text_full)
       ELSE add_table_with_caption(st, el, UnknownTable)

---------------------------------------------------------------------------
(* The level-1 headings: lines 583-697 *)

ZhaiYao == <<"zhai", "yao">>
ABSTRACT == <<"A", "B", "S", "T", "R", "A", "C", "T">>
CanKaoWenXian == <<"can", "kao", "wen", "xian">>
ZhiXie == <<"zhi", "xie">>

ChineseNumerals ==
    {"yi", "er", "san", "si", "wu", "liu", "qi", "ba", "jiu", "shi", "bai"}

\* title_text.startswith("di") and "zhang" in title_text (line 643)
IsChapterTitle(title_text) ==
    title_text # <<>> /\ title_text[1] = "di" /\ Contains(<<"zhang">>, title_text)

\* re.match(r"(di[numerals]+zhang)\s*(.*)", title_text).group(1), line 648
chap_match(title_text) ==
    LET n == RunLen(title_text, 2, ChineseNumerals)
    IN IF /\ title_text # <<>>
          /\ title_text[1] = "di"
          /\ n >= 1
          /\ n + 2 <= Len(title_text)
          /\ title_text[n + 2] = "zhang"
       THEN [ok |-> TRUE, g2 |-> SubSeq(title_text, 1, n + 2)]
       ELSE NoMatch

\* the loops of lines 595-603 and 622-630: every node up to the next h1 is
\* consumed, the p nodes among them emitted as abstract body
RECURSIVE consume_abstract(_, _, _)
consume_abstract(st, els, role) ==
    IF st.idx < Len(els) /\ els[st.idx + 1].name # "h1"
    THEN LET el == els[st.idx + 1]
             emitted == IF el.name = "p"
                        THEN Emit(st, <<Styled(role, el.text, 7, "JUSTIFY", FALSE)>>)
                        ELSE st
         IN consume_abstract([emitted EXCEPT !.idx = @ + 1], els, role)
    ELSE st

\* lines 586-604
zhaiyao_block(st, els) ==
    LET titled == Emit(st, <<[ParaBase EXCEPT
                                !.role = "abstract_cn_title",
                                !.alignment = "CENTER",
                                !.runs = <<Direct(<<"zhai", " ", " ", " ", "yao">>)>>]>>)
    IN Emit(consume_abstract(titled, els, "abstract_cn_body"),
            <<Para("blank", <<>>)>>)

\* as abstract_block, with line 620 stepping back instead of forward
abstract_block_step_back(st, els) ==
    LET titled == Emit(st, <<Styled("blank_line", <<>>, 0, "LEFT", FALSE),
                             [ParaBase EXCEPT
                                !.role = "abstract_en_title",
                                !.alignment = "CENTER",
                                !.runs = <<Direct(ABSTRACT)>>]>>)
        consumed == consume_abstract([titled EXCEPT !.idx = @ - 1], els,
                                     "abstract_en_body")
    IN [add_section(add_toc_placeholder(consumed)) EXCEPT
           !.main_text_started = TRUE]

\* lines 606-641
abstract_block(st, els) ==
    LET titled == Emit(st, <<Styled("blank_line", <<>>, 0, "LEFT", FALSE),
                             [ParaBase EXCEPT
                                !.role = "abstract_en_title",
                                !.alignment = "CENTER",
                                !.runs = <<Direct(ABSTRACT)>>]>>)
        skipped == [titled EXCEPT !.idx = @ + 1]            \* line 620
        consumed == consume_abstract(skipped, els, "abstract_en_body")
    IN [add_section(add_toc_placeholder(consumed)) EXCEPT
           !.main_text_started = TRUE]

\* lines 643-656
chapter_heading(st, title_text) ==
    LET opened == open_main_section(st)
        numbered == IF chap_match(title_text).ok
                    THEN [opened EXCEPT
                            !.current_chapter_num_str = chap_match(title_text).g2]
                    ELSE opened
    IN add_heading(numbered, title_text, 1)

\* as ref_text, numbering from 0
ref_text_from_zero(ref_idx, ref) == <<"[">> \o Str(ref_idx) \o <<"]", " ">> \o ref

\* ref_text = f"[{ref_idx + 1}] {ref}" (line 676)
ref_text(ref_idx, ref) == <<"[">> \o Str(ref_idx + 1) \o <<"]", " ">> \o ref

\* lines 675-679: one paragraph per entry of the global list
reference_paragraphs(refs) ==
    [k \in 1..Len(refs) |-> Styled("reference", ref_text(k - 1, refs[k]), 7, "LEFT", TRUE)]

\* lines 659-679
references_heading(st, title_text, refs) ==
    LET opened == open_main_section(st)
        broken == Emit(opened, <<[ParaBase EXCEPT
                                    !.role = "page_break",
                                    !.runs = <<Direct(<<>>)>>]>>)
    IN Emit(add_heading(broken, title_text, 1), reference_paragraphs(refs))

\* lines 681-695
acknowledgments_heading(st, title_text) ==
    add_heading(open_main_section(st), title_text, 1)

\* lines 583-697: an h1 that matches no branch does nothing
h1_node(st, title_text, els, refs) ==
    IF title_text = ZhaiYao /\ ~Contains(ABSTRACT, title_text)
    THEN zhaiyao_block(st, els)
    ELSE IF title_text = ABSTRACT THEN abstract_block(st, els)
    ELSE IF IsChapterTitle(title_text) THEN chapter_heading(st, title_text)
    ELSE IF title_text = CanKaoWenXian THEN references_heading(st, title_text, refs)
    ELSE IF title_text = ZhiXie THEN acknowledgments_heading(st, title_text)
    ELSE st

---------------------------------------------------------------------------
(* Lists: lines 750-779 *)

\* re.match(r'\[\^(\d+)\]:\s*(.*)', item_text, re.DOTALL)
ref_match(item_text) ==
    LET n == DigitRun(item_text, 3)
    IN IF /\ Len(item_text) >= 5
          /\ item_text[1] = "[" /\ item_text[2] = "^"
          /\ n >= 1
          /\ n + 4 <= Len(item_text)
          /\ item_text[n + 3] = "]" /\ item_text[n + 4] = ":"
       THEN [ok |-> TRUE,
             g1 |-> SubSeq(item_text, 3, n + 2),
             g2 |-> LET w == RunLen(item_text, n + 5, Whitespace)
                    IN SubSeq(item_text, n + 5 + w, Len(item_text))]
       ELSE LabelNoMatch

\* lines 757-779: the paragraph of one <li>
list_item(name, item_idx, item_text) ==
    LET m == ref_match(item_text)
    IN IF m.ok
       THEN [Styled("list_reference",
                    <<"[">> \o m.g1 \o <<"]", " ">> \o Strip(m.g2),
                    0, "LEFT", FALSE)
               EXCEPT !.left_indent = 7, !.first_line_indent = -7]
       ELSE Styled("list_item",
                   (IF name = "ol" THEN Str(item_idx + 1) \o <<".", " ">>
                    ELSE <<"-", " ">>) \o item_text,
                   7, "LEFT", FALSE)

\* lines 750-779: el.items are the texts of the <li> children
list_node(st, el) ==
    Emit(st, [k \in 1..Len(el.items) |-> list_item(el.name, k - 1, el.items[k])])

---------------------------------------------------------------------------
(* Fenced code blocks: convert_mermaid_to_image_mmdc (lines 218-253) and  *)
(* lines 802-846                                                           *)

FailedToRender ==
    <<"[", "F", "a", "i", "l", "e", "d", " ", "t", "o", " ", "r", "e", "n",
      "d", "e", "r", " ", "M", "e", "r", "m", "a", "i", "d", " ", "d", "i",
      "a", "g", "r", "a", "m", ":", " ">>

CaptionNotFound ==
    <<"[", "M", "e", "r", "m", "a", "i", "d", " ", "d", "i", "a", "g", "r",
      "a", "m", " ", "-", " ", "c", "a", "p", "t", "i", "o", "n", " ", "n",
      "o", "t", " ", "f", "o", "u", "n", "d", "]">>

\* what subprocess.run of the renderer does: "ok" (exit 0, image written),
\* "nonzero" (CalledProcessError), "timeout" (TimeoutExpired), "notfound"
\* (FileNotFoundError), and the failures after the image was written
RenderOutcomes ==
    {"ok", "nonzero", "nonzero_wrote", "timeout", "timeout_wrote", "notfound"}

\* the two temporary files of the conversion of the node at position n
MmdFile(n) == <<n, "mmd">>
ImageFile(n) == <<n, "png">>

\* lines 218-253: the source file is written and handed to the renderer
\* and, in the finally clause, removed; the renderer may have written the
\* image; the path of the image is returned on exit 0 alone
convert_mermaid_to_image_mmdc(st, mermaid_code, render) ==
    LET written == IF render \in {"ok", "nonzero_wrote", "timeout_wrote"}
                   THEN {ImageFile(st.idx)} ELSE {}
        run == (st.temp_files \cup {MmdFile(st.idx)}) \cup written
    IN [st |-> [st EXCEPT !.temp_files = run \ {MmdFile(st.idx)},
                          !.renderer_calls = @ \o <<mermaid_code>>],
        image_file |-> render = "ok"]

\* s.splitlines(), for the line end "\n": no empty last line
splitlines(s) ==
    IF s = <<>> THEN <<>>
    ELSE IF s[Len(s)] = "\n" THEN SplitOn(SubSeq(s, 1, Len(s) - 1), "\n")
    ELSE SplitOn(s, "\n")

\* '\n'.join(code_content.splitlines()[1:]), line 820
mermaid_code_for_render(code_content) ==
    IF splitlines(code_content) = <<>> THEN <<>>
    ELSE Join(Tail(splitlines(code_content)), "\n")

\* re.match(r'%%(tu\s*[\d\.]+)\s*(.*)', code_content), line 814
mermaid_caption_match(code_content) ==
    IF Len(code_content) >= 2 /\ code_content[1] = "%" /\ code_content[2] = "%"
    THEN LabelMatch(SubSeq(code_content, 3, Len(code_content)), "tu")
    ELSE LabelNoMatch

\* lines 812-838: a diagram block
mermaid_block(st, el) ==
    LET m == mermaid_caption_match(el.code)
        fig_num_text == Strip(m.g1)
        caption_content == Strip(m.g2)
        conv == convert_mermaid_to_image_mmdc(
                    st, mermaid_code_for_render(el.code), el.render)
    IN IF ~m.ok
       THEN Emit(st, <<Styled("mermaid_no_caption", CaptionNotFound, 0, "LEFT", FALSE)>>)
       ELSE IF conv.image_file
       THEN \* lines 825-826: embedded, then os.remove(image_file)
            [add_image_with_caption(conv.st, "ok", caption_content, fig_num_text)
               EXCEPT !.temp_files = @ \ {ImageFile(st.idx)}]
       ELSE Emit(conv.st,
                 <<Styled("mermaid_failed",
                          FailedToRender \o fig_num_text \o <<" ">>
                              \o caption_content \o <<"]">>,
                          0, "LEFT", FALSE)>>)

\* lines 802-846: el.code_tag (there is a <code>), el.mermaid (its class),
\* el.code (its text), el.render (what the renderer will do)
pre_node(st, el) ==
    IF ~el.code_tag THEN st
    ELSE IF el.mermaid THEN mermaid_block(st, el)
    ELSE Emit(st, <<[Styled("code", el.code, 0, "LEFT", FALSE)
                       EXCEPT !.left_indent = 10]>>)

---------------------------------------------------------------------------
(* One iteration of the main loop: lines 574-851 *)

\* el.text is el.get_text(strip=True); a text node has the name "None"
classify(st0, els, refs) ==
    LET el == els[st0.idx + 1]
        st == [st0 EXCEPT !.idx = @ + 1]
    IN CASE el.name = "None" -> st
         [] el.name = "h1" -> h1_node(st, el.text, els, refs)
         [] el.name = "h2" -> add_heading(st, el.text, 2)
         [] el.name = "h3" -> add_heading(st, el.text, 3)
         [] el.name = "h4" -> add_heading(st, el.text, 4)
         [] el.name = "h5" -> Emit(st, <<Styled("h5", el.text, 0, "LEFT", FALSE)>>)
         [] el.name = "p" ->
              IF el.img # <<>> THEN image_paragraph(st, el.img[1])
              ELSE IF el.text # <<>>
              THEN Emit(st, <<Styled("body", el.text, 7, "LEFT", FALSE)>>)
              ELSE st
         [] el.name \in {"ul", "ol"} -> list_node(st, el)
         [] el.name = "table" -> table_node(st, el)
         [] el.name = "pre" -> pre_node(st, el)
         [] OTHER -> st

---------------------------------------------------------------------------
(* preprocess_html (lines 524-539) and the finalizer (lines 857-870) *)

\* lines 532-538: the text of every footnote <li> that has a <p>
RECURSIVE harvest(_)
harvest(lis) ==
    IF lis = <<>> THEN <<>>
    ELSE (IF Head(lis).p # <<>> THEN <<Head(lis).p[1]>> ELSE <<>>)
         \o harvest(Tail(lis))

\* set_header_footer (lines 434-467)
set_header_footer(section, header_text) ==
    [header |-> HeaderFooter(FALSE, header_text, TRUE, TRUE, FALSE),
     footer |-> HeaderFooter(FALSE, <<>>, TRUE, FALSE, TRUE)]

\* lines 859-868: section 0 is relinked, and reading .paragraphs of a
\* header that has no earlier section to inherit from gives it an empty
\* definition of its own, whose paragraphs are cleared
clear_first_section(section) ==
    [header |-> HeaderFooter(FALSE, <<>>, FALSE, FALSE, FALSE),
     footer |-> HeaderFooter(FALSE, <<>>, FALSE, FALSE, FALSE)]

\* as finalize_sections, with the header and footer set on every section
finalize_sections_all(secs, header_text) ==
    [i \in 1..Len(secs) |-> set_header_footer(secs[i], header_text)]

\* lines 858-870
finalize_sections(secs, header_text) ==
    [i \in 1..Len(secs) |->
        IF i = 1 THEN clear_first_section(secs[i])
        ELSE set_header_footer(secs[i], header_text)]

---------------------------------------------------------------------------
(* markdown_to_word as a state machine *)

\* lines 543-572: the empty document with its one section, the pre-pass
\* that appends to the global list, the traversal state
Begin ==
    /\ pc = "start"
    /\ doc' = <<>>
    /\ sections' = <<NewSection>>
    /\ ReferencesList' = ReferencesList \o harvest(fn_items)
    /\ idx' = 0
    /\ main_text_started' = FALSE
    /\ toc_items' = <<>>
    /\ current_chapter_num_str' = <<>>
    /\ calls' = calls + 1
    /\ pc' = "loop"
    /\ UNCHANGED <<elements, fn_items, seg_vars, env_vars>>

\* lines 574-851: one iteration of the while loop; an exception a handler
\* raises leaves markdown_to_word
LoopStep ==
    /\ pc = "loop"
    /\ idx < Len(elements)
    /\ LET st == classify(State, elements, ReferencesList)
       IN /\ doc' = st.doc
          /\ sections' = st.sections
          /\ idx' = st.idx
          /\ main_text_started' = st.main_text_started
          /\ toc_items' = st.toc_items
          /\ current_chapter_num_str' = st.current_chapter_num_str
          /\ temp_files' = st.temp_files
          /\ renderer_calls' = st.renderer_calls
          /\ pc' = IF st.raised THEN "raised" ELSE "loop"
    /\ UNCHANGED <<elements, fn_items, ReferencesList, calls, seg_vars,
                   md_file_exists, saved, exit_status>>

\* lines 853-875: the loop is over; headers and footers, then the save
Finalize ==
    /\ pc = "loop"
    /\ idx >= Len(elements)
    /\ sections' = finalize_sections(sections, header_text_content)
    /\ saved' = TRUE
    /\ pc' = "done"
    /\ UNCHANGED <<elements, fn_items, ReferencesList, doc, idx,
                   main_text_started, toc_items, current_chapter_num_str,
                   calls, seg_vars, temp_files, renderer_calls,
                   md_file_exists, exit_status>>

Next == Begin \/ LoopStep \/ Finalize

SegIdle ==
    /\ text_content = <<>>
    /\ is_heading = FALSE
    /\ is_reference = FALSE
    /\ seg_runs = <<>>
    /\ seg_pc = "idle"

\* the process before its call of markdown_to_word on a parsed manuscript
ConvInit(manuscripts, footnotes) ==
    /\ elements \in manuscripts
    /\ fn_items \in footnotes
    /\ ReferencesList = <<>>
    /\ doc = <<>>
    /\ sections = <<>>
    /\ idx = 0
    /\ main_text_started = FALSE
    /\ toc_items = <<>>
    /\ current_chapter_num_str = <<>>
    /\ pc = "start"
    /\ calls = 0
    /\ temp_files = {}
    /\ renderer_calls = <<>>
    /\ md_file_exists = TRUE
    /\ saved = FALSE
    /\ exit_status = <<>>
    /\ SegIdle

SeqsUpTo(S, n) == UNION {[1..k -> S] : k \in 0..n}

---------------------------------------------------------------------------
(* The nodes of the parsed tree *)

TextNode == [name |-> "None"]
H(level, text) == [name |-> "h" \o ToString(level), text |-> text]
P(text) == [name |-> "p", text |-> text, img |-> <<>>]
ImgP(alt, src) == [name |-> "p", text |-> <<>>, img |-> <<[alt |-> alt, src |-> src]>>]
Table(th, tbody, rows) == [name |-> "table", th |-> th, tbody |-> tbody, rows |-> rows]
Hr == [name |-> "hr"]
List(name, items) == [name |-> name, items |-> items]
Pre(code_tag, mermaid, code, render) ==
    [name |-> "pre", code_tag |-> code_tag, mermaid |-> mermaid,
     code |-> code, render |-> render]

\* a footnote <li>: with its <p>, or without one
Li(text) == [p |-> <<text>>]
LiNoP == [p |-> <<>>]

ChapterOne == <<"di", "yi", "zhang", " ", "zh", "zh">>
Appendix == <<"zh", "zh">>

H1Nodes ==
    {H(1, t) : t \in {ZhaiYao, ABSTRACT, ChapterOne, CanKaoWenXian, ZhiXie, Appendix}}

StructNodes ==
    H1Nodes \cup
    {TextNode, Hr, P(<<"zh">>),
     H(2, <<"1", ".", "1", " ", "zh">>), H(3, <<"1", ".", "1", ".", "1", " ", "zh">>),
     H(4, <<"1", ".", " ", "zh">>), H(5, <<"zh">>),
     ImgP(<<"zh">>, "missing"),
     Table(<<<<"H">>>>, TRUE, <<<<<<"c">>>>>>)}

\* longest manuscript (top-level nodes) of the general specification
MaxElems == 3

Init == ConvInit(SeqsUpTo(StructNodes, MaxElems), {<<>>, <<Li(<<"A">>)>>})

Spec == Init /\ [][Next]_vars

---------------------------------------------------------------------------
(* Claims about the sections, checked under Spec *)

\* C7: after the traversal and the finalizer, the output document has at
\* least two sections, whatever the manuscript.
C7_AtLeastTwoSections == pc = "done" => Len(sections) >= 2

\* C8: after the finalizer, section 0 has an empty header and an empty
\* footer; every later section has the running title as its header,
\* centered with a bottom border, and a centered PAGE field as its footer,
\* both unlinked from the previous section.
C8_HeadersFooters ==
    pc = "done" =>
        /\ Len(sections) >= 1
        /\ sections[1].header.text = <<>>
        /\ ~sections[1].header.page_field
        /\ sections[1].footer.text = <<>>
        /\ ~sections[1].footer.page_field
        /\ \A i \in 2..Len(sections) :
              /\ sections[i].header =
                     HeaderFooter(FALSE, header_text_content, TRUE, TRUE, FALSE)
              /\ sections[i].footer.page_field
              /\ sections[i].footer.centered
              /\ ~sections[i].footer.linked

\* the finalizer has run on a document of three sections or more
C8_Witness == pc = "done" /\ Len(sections) >= 3

---------------------------------------------------------------------------
(* The reference list: first call of a process (RefSpec), repeated calls  *)
(* in one process (LibSpec)                                                *)

\* the bodies of the footnote definitions of the manuscript, in the order
\* the pre-pass meets them
Definitions ==
    LET defined == SelectSeq(fn_items, LAMBDA li : li.p # <<>>)
    IN [k \in 1..Len(defined) |-> defined[k].p[1]]

\* the paragraphs of the output that read as reference entries
IsReference(u) == u.kind = "p" /\ u.role = "reference"

\* every reference section of the output (the page break and heading the
\* references branch emits, and what follows them) consists of exactly
\* the paragraphs "[k] <body k>" of the bodies, k from 1, in order
ReferenceSectionsRead(bodies) ==
    /\ \A i \in 1..Len(doc) :
          doc[i].role = "page_break" =>
              /\ i + 1 + Len(bodies) <= Len(doc)
              /\ doc[i + 1].role = "heading1"
              /\ \A k \in 1..Len(bodies) :
                    /\ IsReference(doc[i + 1 + k])
                    /\ RunsText(doc[i + 1 + k].runs) =
                           <<"[">> \o Str(k) \o <<"]", " ">> \o bodies[k]
              /\ i + 2 + Len(bodies) <= Len(doc) =>
                     ~IsReference(doc[i + 2 + Len(bodies)])
    /\ Len(SelectSeq(doc, IsReference)) =
           Len(bodies) * Len(SelectSeq(doc, LAMBDA u : u.role = "page_break"))

\* C4: with the definitions d1..dn met by the pre-pass in this order, the
\* reference section emitted at the references heading is exactly the n
\* paragraphs "[i] <body of di>", whatever the body cites and wherever the
\* heading stands.
C4_ReferenceSection == pc = "done" => ReferenceSectionsRead(Definitions)

\* a references section of two entries, defined in the order B, A, in a
\* manuscript whose body cites [^2] before the heading
C4_Witness ==
    /\ pc = "done"
    /\ Definitions = <<<<"B">>, <<"A">>>>
    /\ \E i \in 1..Len(doc) : doc[i].role = "page_break"
    /\ \E i \in 1..Len(doc) : doc[i].role = "body"

CitingParagraph == P(<<"zh", "[", "^", "2", "]">>)

\* a list whose item reads as a footnote definition, "[^1]: A"
DefinitionList == List("ol", <<<<"[", "^", "1", "]", ":", " ", "A">>>>)

RefNodes ==
    {H(1, CanKaoWenXian), H(1, ABSTRACT), TextNode, P(<<"zh">>), CitingParagraph,
     DefinitionList}

\* longest manuscript of RefSpec, and most footnote definitions
MaxRefElems == 3
MaxFn == 2

RefInit ==
    ConvInit(SeqsUpTo(RefNodes, MaxRefElems),
             SeqsUpTo({Li(<<"A">>), Li(<<"B">>), LiNoP}, MaxFn))

RefSpec == RefInit /\ [][Next]_vars

\* most calls of markdown_to_word in one process
MaxCalls == 2

LibManuscripts == SeqsUpTo({H(1, CanKaoWenXian), P(<<"zh">>)}, 2)
LibFootnotes == SeqsUpTo({Li(<<"A">>), Li(<<"B">>)}, 1)

\* the process calls markdown_to_word again, on another manuscript
Reinvoke ==
    /\ pc = "done"
    /\ calls < MaxCalls
    /\ elements' \in LibManuscripts
    /\ fn_items' \in LibFootnotes
    /\ saved' = FALSE
    /\ pc' = "start"
    /\ UNCHANGED <<ReferencesList, doc, sections, idx, main_text_started,
                   toc_items, current_chapter_num_str, calls, seg_vars,
                   temp_files, renderer_calls, md_file_exists, exit_status>>

LibInit == ConvInit(LibManuscripts, LibFootnotes)

LibNext == Next \/ Reinvoke

LibSpec == LibInit /\ [][LibNext]_vars

\* C5: no reference entry outlives one conversion: in every call, also the
\* second of a process, the list holds the definitions of that call's
\* manuscript alone, and the reference section is numbered from 1 over them.
C5_NoEntryOutlivesACall ==
    /\ pc \in {"loop", "done"} => ReferencesList = Definitions
    /\ pc = "done" => ReferenceSectionsRead(Definitions)

---------------------------------------------------------------------------
(* The thesis of claim C6: ThesisSpec *)

\* most nodes between two level-1 headings
MaxGap == 1

Gaps == SeqsUpTo({TextNode, P(<<"zh">>)}, MaxGap)

ThesisManuscripts ==
    {<<H(1, ZhaiYao)>> \o g1 \o <<H(1, ABSTRACT)>> \o g2 \o <<H(1, ChapterOne)>>
         \o g3 \o <<H(1, CanKaoWenXian)>> \o g4 :
       g1 \in Gaps, g2 \in Gaps, g3 \in Gaps, g4 \in Gaps}

ThesisInit ==
    ConvInit(ThesisManuscripts, [1..2 -> {Li(<<"A">>), Li(<<"B">>)}])

ThesisSpec == ThesisInit /\ [][Next]_vars

\* C6: for the level-1 headings zhaiyao, ABSTRACT, chapter one, references
\* in this order and two footnote definitions, the finished output has
\* exactly two sections, exactly one table-of-contents field, a PAGE footer
\* in every section but the first, and a references block of exactly the
\* two numbered entries in definition order.
C6_Thesis ==
    pc = "done" =>
        /\ Len(sections) = 2
        /\ Cardinality({i \in 1..Len(doc) : doc[i].field = "TOC"}) = 1
        /\ ~sections[1].footer.page_field
        /\ \A i \in 2..Len(sections) : sections[i].footer.page_field
        /\ LET block == SelectSeq(doc, IsReference)
           IN /\ Len(block) = 2
              /\ RunsText(block[1].runs) = <<"[", "1", "]", " ">> \o fn_items[1].p[1]
              /\ RunsText(block[2].runs) = <<"[", "2", "]", " ">> \o fn_items[2].p[1]

\* the thesis as the Markdown parser gives it (a text node after every
\* block), converted: the chapter heading is in the table of contents
C6_Witness ==
    /\ pc = "done"
    /\ elements = <<H(1, ZhaiYao), TextNode, H(1, ABSTRACT), TextNode,
                    H(1, ChapterOne), TextNode, H(1, CanKaoWenXian), TextNode>>
    /\ fn_items = <<Li(<<"B">>), Li(<<"A">>)>>
    /\ \E k \in 1..Len(toc_items) : toc_items[k].text = ChapterOne

---------------------------------------------------------------------------
(* Images and tables: BlockSpec *)

AltLabelled == <<"tu", "2", ".", "1", " ", "zh">>
AltSpaced == <<"tu", " ", "3", " ", " ", "zh", " ">>
AltPlain == <<"zh">>
AltNoNumber == <<"tu", "zh">>
AltEmpty == <<>>

AltTexts == {AltLabelled, AltSpaced, AltPlain, AltNoNumber, AltEmpty}

\* a Markdown table with the caption convention, one without it, one of a
\* header row alone, and a raw HTML table (no <tbody>) without it
TableCaptioned ==
    Table(<<<<"[", "biao", "2", ".", "1", " ", "zh", "]", "H">>, <<"G">>>>,
          TRUE, <<<<<<"c">>, <<"d">>>>>>)
TablePlain == Table(<<<<"H">>>>, TRUE, <<<<<<"c">>>>>>)
TableHeaderOnly == Table(<<<<"H">>>>, TRUE, <<>>)
TableRaw == Table(<<<<"H">>>>, FALSE, <<>>)

BlockNodes ==
    {ImgP(alt, src) : alt \in AltTexts, src \in {"ok", "missing", "corrupt"}}
    \cup {TableCaptioned, TablePlain, TableHeaderOnly, TableRaw}
    \cup {P(<<"zh">>), TextNode, H(1, ZhaiYao)}

\* longest manuscript of BlockSpec
MaxBlocks == 2

BlockInit == ConvInit(SeqsUpTo(BlockNodes, MaxBlocks), {<<>>})

BlockSpec == BlockInit /\ [][Next]_vars

\* the node the main loop is about to dispatch
AtNode == pc = "loop" /\ idx < Len(elements)

\* what the step appends to the body, the body before it being kept
Gained == SubSeq(doc', Len(doc) + 1, Len(doc'))
BodyKept == Len(doc') >= Len(doc) /\ SubSeq(doc', 1, Len(doc)) = doc

\* the label and the caption a reader takes from the alt text
Extracted(alt, caption_of_empty) ==
    CASE alt = AltLabelled -> [label |-> <<"tu", "2", ".", "1">>, caption |-> <<"zh">>]
      [] alt = AltSpaced -> [label |-> <<"tu", " ", "3">>, caption |-> <<"zh">>]
      [] alt = AltEmpty -> [label |-> <<"tu", "?", ".", "?">>, caption |-> caption_of_empty]
      [] OTHER -> [label |-> <<"tu", "?", ".", "?">>, caption |-> alt]

IsCaption(u) == u.kind = "p" /\ u.role = "caption"
IsSpacer(u) == u.kind = "p" /\ u.role = "spacer" /\ RunsText(u.runs) = <<>>

\* the step that dispatches an image paragraph goes on with the traversal
\* and appends [the picture paragraph,] one caption line, one spacer
ImageStepYields(caption_of_empty) ==
    (AtNode /\ elements[idx + 1].name = "p" /\ elements[idx + 1].img # <<>>) =>
        LET img == elements[idx + 1].img[1]
            want == Extracted(img.alt, caption_of_empty)
            n == Len(Gained)
        IN /\ pc' = "loop"
           /\ idx' = idx + 1
           /\ BodyKept
           /\ n \in {2, 3}
           /\ IsCaption(Gained[n - 1])
           /\ RunsText(Gained[n - 1].runs) = want.label \o <<" ">> \o want.caption
           /\ IsSpacer(Gained[n])
           /\ n = 3 => /\ ~IsCaption(Gained[1]) /\ ~IsSpacer(Gained[1])
                       /\ Gained[1].picture = (img.src = "ok")
           /\ img.src = "ok" => n = 3

UncaptionedTable(el) ==
    /\ el.name = "table"
    /\ el.th # <<>>
    /\ ~Contains(<<"[", "biao">>, el.th[1])

\* the step appends a caption with the placeholder label, then the grid of
\* the header row and the data rows, and the traversal goes on
TableStepEmits ==
    /\ pc' = "loop"
    /\ BodyKept
    /\ Len(Gained) >= 2
    /\ Gained[1].kind = "p"
    /\ Len(RunsText(Gained[1].runs)) >= 4
    /\ SubSeq(RunsText(Gained[1].runs), 1, 4) = <<"biao", "X", ".", "X">>
    /\ Gained[2].kind = "table"
    /\ Gained[2].grid = <<elements[idx + 1].th>> \o elements[idx + 1].rows

\* C10: a table node whose first header cell has no bracketed caption is
\* still emitted: a caption paragraph with a placeholder label, then the
\* grid with its header and data rows; it is never skipped.
C10_TableStillEmitted ==
    [][(AtNode /\ UncaptionedTable(elements[idx + 1])) => TableStepEmits]_vars

\* what does hold: the same, for the tables that have a <tbody>
TablesWithTbodyEmitted ==
    [][(AtNode /\ UncaptionedTable(elements[idx + 1]) /\ elements[idx + 1].tbody)
          => TableStepEmits]_vars

---------------------------------------------------------------------------
(* Diagram blocks: DiagramSpec *)

\* "%%tu3.1 zh" then a line of diagram source; the same with a caption
\* that cites [1]; diagram source alone
CodeCaptioned == <<"%", "%", "tu", "3", ".", "1", " ", "zh", "\n", "A">>
CodeCiting ==
    <<"%", "%", "tu", "3", ".", "1", " ", "zh", "[", "1", "]", "a", "\n", "A">>
CodeBare == <<"A">>
\* the captioned block as the Markdown parser gives it, with a last "\n";
\* a first line "%%zh" (a comment, no label); a first line "%%tu" with the
\* number "3.1 zh" on the second line
CodeTrailing == <<"%", "%", "tu", "3", ".", "1", " ", "zh", "\n", "A", "\n">>
CodeMalformed == <<"%", "%", "zh", "\n", "A">>
CodeSplitLabel == <<"%", "%", "tu", "\n", "3", ".", "1", " ", "zh", "\n", "A">>

DiagramNodes ==
    {Pre(TRUE, TRUE, code, render) :
        code \in {CodeCaptioned, CodeCiting, CodeBare, CodeTrailing,
                  CodeMalformed, CodeSplitLabel},
        render \in RenderOutcomes}
    \cup {Pre(TRUE, FALSE, <<"a">>, "ok"), Pre(FALSE, FALSE, <<>>, "ok"),
          P(<<"zh">>), TextNode}

\* longest manuscript of DiagramSpec
MaxDiagrams == 2

DiagramInit == ConvInit(SeqsUpTo(DiagramNodes, MaxDiagrams), {<<>>})

DiagramSpec == DiagramInit /\ [][Next]_vars

\* the label and the caption a reader takes from the first line
DiagramCaption(code) ==
    CASE code = CodeCaptioned -> [label |-> <<"tu", "3", ".", "1">>, caption |-> <<"zh">>]
      [] code = CodeCiting ->
           [label |-> <<"tu", "3", ".", "1">>, caption |-> <<"zh", "[", "1", "]", "a">>]

\* the node at hand is a diagram block with a valid first line whose
\* rendering fails
FailingDiagram(el) ==
    /\ el.name = "pre" /\ el.code_tag /\ el.mermaid
    /\ el.code \in {CodeCaptioned, CodeCiting}
    /\ el.render # "ok"

\* the step goes on with the traversal and appends one bracketed paragraph
\* that holds the label and the caption, no picture, no caption line
FailurePlaceholderEmitted ==
    LET want == DiagramCaption(elements[idx + 1].code)
        text == RunsText(Gained[1].runs)
    IN /\ pc' = "loop"
       /\ BodyKept
       /\ Len(Gained) = 1
       /\ Gained[1].kind = "p" /\ ~Gained[1].picture /\ ~IsCaption(Gained[1])
       /\ text # <<>> /\ text[1] = "[" /\ text[Len(text)] = "]"
       /\ Contains(want.label, text)
       /\ Contains(want.caption, text)

\* C11: for a diagram block with a valid first line whose rendering fails
\* (non-zero exit, timeout, tool not installed), the traversal continues and
\* emits exactly one bracketed failure placeholder whose text contains the
\* label and the caption; no image and no caption paragraph.
C11_FailurePlaceholder ==
    [][(AtNode /\ FailingDiagram(elements[idx + 1])) => FailurePlaceholderEmitted]_vars

\* what does hold: the same, for a caption no part of which starts with a
\* bracketed number
PlainCaptionPlaceholder ==
    [][(AtNode /\ FailingDiagram(elements[idx + 1])
          /\ elements[idx + 1].code = CodeCaptioned) => FailurePlaceholderEmitted]_vars

\* C12: once a diagram block has been handled, neither the temporary
\* source file nor the temporary image file of its conversion exists,
\* whatever the renderer did.
C12_NoTempFileLeft == pc \in {"loop", "done"} => temp_files = {}

---------------------------------------------------------------------------
(* The command-line driver (lines 878-898): CliSpec *)

\* lines 884-890: a missing input file is reported and the process exits
\* with status 1; otherwise the file is read and markdown_to_word called
Main ==
    /\ pc = "main"
    /\ IF md_file_exists
       THEN pc' = "start" /\ UNCHANGED exit_status
       ELSE pc' = "exited" /\ exit_status' = <<1>>
    /\ UNCHANGED <<elements, fn_items, ReferencesList, doc, sections, idx,
                   main_text_started, toc_items, current_chapter_num_str,
                   calls, seg_vars, temp_files, renderer_calls,
                   md_file_exists, saved>>

\* lines 895-898: the exception is caught, the message and the trace are
\* printed
ExceptHandler ==
    /\ pc = "raised"
    /\ pc' = "caught"
    /\ UNCHANGED <<elements, fn_items, ReferencesList, doc, sections, idx,
                   main_text_started, toc_items, current_chapter_num_str,
                   calls, seg_vars, env_vars>>

\* the with block is left (the temporary directory is removed) and the
\* script ends: the interpreter exits with status 0
Exit ==
    /\ pc \in {"done", "caught"}
    /\ temp_files' = {}
    /\ exit_status' = <<0>>
    /\ pc' = "exited"
    /\ UNCHANGED <<elements, fn_items, ReferencesList, doc, sections, idx,
                   main_text_started, toc_items, current_chapter_num_str,
                   calls, seg_vars, renderer_calls, md_file_exists, saved>>

\* longest manuscript of CliSpec
MaxCliElems == 3

CliManuscripts ==
    SeqsUpTo({P(<<"zh">>), TextNode, H(1, ABSTRACT), TablePlain, TableRaw},
             MaxCliElems)

CliInit ==
    /\ md_file_exists \in BOOLEAN
    /\ elements \in (IF md_file_exists THEN CliManuscripts ELSE {<<>>})
    /\ fn_items = <<>>
    /\ ReferencesList = <<>>
    /\ doc = <<>>
    /\ sections = <<>>
    /\ idx = 0
    /\ main_text_started = FALSE
    /\ toc_items = <<>>
    /\ current_chapter_num_str = <<>>
    /\ pc = "main"
    /\ calls = 0
    /\ temp_files = {}
    /\ renderer_calls = <<>>
    /\ saved = FALSE
    /\ exit_status = <<>>
    /\ SegIdle

CliNext == Main \/ Next \/ ExceptHandler \/ Exit

CliSpec == CliInit /\ [][CliNext]_vars

\* C13: the process ends with a non-zero status whenever the run failed
\* (input file missing, or markdown_to_word raised), and with status zero
\* only when the document was saved.
C13_ExitStatus == pc = "exited" => (exit_status = <<0>> <=> saved)

---------------------------------------------------------------------------
(* The abstract blocks, checked under Spec *)

\* the positions (1-based) the step at hand consumes after the node it
\* dispatches
ConsumedBeyond == {k \in (idx + 2)..Len(elements) : k <= idx'}

\* the position of the first h1 after the node at hand, or Len + 1
NextH1 ==
    LET later == {k \in (idx + 2)..Len(elements) : elements[k].name = "h1"}
    IN IF later = {} THEN Len(elements) + 1
       ELSE CHOOSE k \in later : \A j \in later : k <= j

AbstractHeading(el) == el.name = "h1" /\ el.text \in {ZhaiYao, ABSTRACT}

IsAbstractBody(u) == u.role \in {"abstract_cn_body", "abstract_en_body"}

\* the step consumes no h1 beyond its own node, and at an abstract heading
\* it emits one abstract body paragraph per p node up to the next h1
AbstractStopsAtH1 ==
    /\ \A k \in ConsumedBeyond : elements[k].name # "h1"
    /\ AbstractHeading(elements[idx + 1]) =>
          Len(SelectSeq(Gained, IsAbstractBody)) =
              Cardinality({k \in (idx + 2)..(NextH1 - 1) : elements[k].name = "p"})

\* C14: abstract-body consumption stops at the next level-1 heading: with
\* or without text nodes between the blocks, no level-1 heading is skipped
\* or swallowed by the consumption loops, and every paragraph node between
\* an abstract heading and the next level-1 heading is emitted as abstract
\* body.
C14_AbstractStopsAtH1 == [][AtNode => AbstractStopsAtH1]_vars

\* what does hold: the same, when a text node follows every ABSTRACT heading
AbstractThenTextNode ==
    [][(AtNode /\ (elements[idx + 1] = H(1, ABSTRACT) =>
                     (idx + 2 <= Len(elements) /\ elements[idx + 2] = TextNode)))
         => AbstractStopsAtH1]_vars

---------------------------------------------------------------------------
(* The headings of the main matter, checked under Spec *)

\* C15: the acknowledgments heading is rendered without a forced page
\* break (its paragraph has no page-break-before and no page-break unit is
\* emitted for it), whereas a chapter heading has a forced page break.
C15_NoBreakBeforeAcknowledgments ==
    [][AtNode =>
         /\ elements[idx + 1] = H(1, ZhiXie) =>
               /\ Len(Gained) >= 1
               /\ \A j \in 1..Len(Gained) :
                     ~Gained[j].page_break_before /\ Gained[j].role # "page_break"
         /\ elements[idx + 1] = H(1, ChapterOne) =>
               \E j \in 1..Len(Gained) : Gained[j].page_break_before]_vars

---------------------------------------------------------------------------
(* The indent of the reference paragraphs, checked under RefSpec *)

\* C16: every numbered reference paragraph emitted at the references
\* heading has a hanging indent, left indent 0.7 cm and first-line indent
\* -0.7 cm, the same as the list items that read as footnote definitions.
C16_HangingIndent ==
    \A i \in 1..Len(doc) :
        IsReference(doc[i]) =>
            /\ doc[i].left_indent = 7
            /\ doc[i].first_line_indent = -7
            /\ \A j \in 1..Len(doc) :
                  doc[j].role = "list_reference" =>
                      /\ doc[j].left_indent = doc[i].left_indent
                      /\ doc[j].first_line_indent = doc[i].first_line_indent

\* a chapter, references or acknowledgments heading
MainHeading(el) ==
    el.name = "h1" /\ el.text \in {ChapterOne, CanKaoWenXian, ZhiXie}

FrontMatterInSectionZero == \A j \in 1..Len(Gained) : Gained[j].sect = 0

\* a zhaiyao block changes neither main-text-started nor the sections
ZhaiYaoKeepsSections ==
    elements[idx + 1] = H(1, ZhaiYao) =>
        main_text_started' = main_text_started /\ sections' = sections

\* C18: for any order of level-1 headings, every abstract title, abstract
\* body paragraph and the table-of-contents placeholder are emitted in
\* section 0; a zhaiyao block changes neither main-text-started nor the
\* number of sections.
C18_FrontMatterAnyOrder ==
    [][(AtNode /\ AbstractHeading(elements[idx + 1])) =>
          FrontMatterInSectionZero /\ ZhaiYaoKeepsSections]_vars

\* what does hold: the same for the abstract headings met while
\* main-text-started is false
FrontMatterBeforeMainText ==
    [][(AtNode /\ AbstractHeading(elements[idx + 1])) =>
          /\ ~main_text_started => FrontMatterInSectionZero
          /\ ZhaiYaoKeepsSections]_vars

\* the entries a reader expects: one per chapter, h2 and h3 heading of the
\* manuscript, in document order
HeadingEntries ==
    LET hs == SelectSeq(elements,
                        LAMBDA el : \/ el.name \in {"h2", "h3"}
                                    \/ (el.name = "h1" /\ el.text = ChapterOne))
    IN [k \in 1..Len(hs) |->
          [level |-> CASE hs[k].name = "h1" -> 1
                       [] hs[k].name = "h2" -> 2
                       [] hs[k].name = "h3" -> 3,
           text |-> hs[k].text]]

\* C19: at the end of the traversal the table-of-contents entries are, in
\* document order, exactly one per chapter heading and per level-2 and
\* level-3 heading of the input, wherever it stands (also between an
\* abstract heading and the next level-1 heading), and none for a level-4
\* or level-5 heading.
C19_TocEntries ==
    pc = "done" =>
        SelectSeq(toc_items, LAMBDA t : t.text \notin {CanKaoWenXian, ZhiXie})
            = HeadingEntries

---------------------------------------------------------------------------
(* Plain bracketed markers, checked under SegSpec *)

\* C20: in body-role text a plain bracketed marker [N], [N,M], [N-M] (no
\* hat) is emitted verbatim in a sub-run whose superscript flag is not set;
\* only hat-prefixed markers get the flag: a text without a hat has no
\* superscript run, and a text that is one plain marker is one such run.
C20_PlainMarkerNotSuperscript ==
    (Returned /\ ~is_heading /\ ~Contains(<<"^">>, text_content)) =>
        /\ \A i \in 1..Len(seg_runs) : ~seg_runs[i].superscript
        /\ text_content \in {<<"[", "1", "]">>, <<"[", "1", ",", "1", "]">>,
                             <<"[", "1", "-", "1", "]">>} =>
               (Len(seg_runs) = 1 /\ seg_runs[1].text = text_content)

---------------------------------------------------------------------------
(* Lists: ListSpec *)

\* "[^1]: A" (a Latin body), "[^1]: zh" (a script body), plain items
ItemLatin == <<"[", "^", "1", "]", ":", " ", "A">>
ItemScript == <<"[", "^", "1", "]", ":", " ", "zh">>
ItemPlain == <<"zh">>
ItemWord == <<"a">>

\* most items of a list, and longest manuscript of ListSpec
MaxItems == 2
MaxLists == 2

ListNodes ==
    {List(name, items) :
        name \in {"ol", "ul"},
        items \in SeqsUpTo({ItemLatin, ItemScript, ItemPlain, ItemWord}, MaxItems)}
    \cup {P(<<"zh">>), TextNode}

ListInit == ConvInit(SeqsUpTo(ListNodes, MaxLists), {<<>>})

ListSpec == ListInit /\ [][Next]_vars

\* what a reader expects of the paragraph of the k-th item of a list
ItemAsClaimed(u, name, k, item) ==
    IF item \in {ItemLatin, ItemScript}
    THEN /\ RunsText(u.runs) = <<"[", "1", "]", " ">> \o <<item[Len(item)]>>
         /\ u.left_indent = 7
         /\ u.first_line_indent = -7
    ELSE RunsText(u.runs) =
             (IF name = "ol" THEN <<ToString(k), ".", " ">> ELSE <<"-", " ">>) \o item

\* C21: a list item that matches [^N]: <body> is emitted as a paragraph
\* whose runs concatenate to "[N] <body>", Latin or script body, with left
\* indent 0.7 cm and first-line indent -0.7 cm; any other item as one
\* paragraph prefixed "<position>. " (ordered) or "- " (unordered).
C21_ListItems ==
    [][(AtNode /\ elements[idx + 1].name \in {"ol", "ul"}) =>
          LET el == elements[idx + 1]
          IN /\ pc' = "loop"
             /\ BodyKept
             /\ Len(Gained) = Len(el.items)
             /\ \A k \in 1..Len(el.items) :
                   Gained[k].kind = "p"
                   /\ ItemAsClaimed(Gained[k], el.name, k, el.items[k])]_vars

\* what does hold: the same for the items that do not match the pattern,
\* and the indents of those that do
PlainItemsAndIndents ==
    [][(AtNode /\ elements[idx + 1].name \in {"ol", "ul"}) =>
          LET el == elements[idx + 1]
          IN /\ pc' = "loop"
             /\ BodyKept
             /\ Len(Gained) = Len(el.items)
             /\ \A k \in 1..Len(el.items) :
                   IF el.items[k] \in {ItemLatin, ItemScript}
                   THEN Gained[k].left_indent = 7 /\ Gained[k].first_line_indent = -7
                   ELSE ItemAsClaimed(Gained[k], el.name, k, el.items[k])]_vars

---------------------------------------------------------------------------
(* The reference list is drained: checked under RefSpec *)

\* C22: within one run the reference list is filled completely by the
\* pre-pass before the first block is classified, and drained exactly
\* once: for any number (at least one) of references headings the
\* traversal handles, each harvested entry appears in exactly one numbered
\* reference paragraph of the output.
C22_DrainedOnce ==
    /\ pc \in {"loop", "done"} => ReferencesList = Definitions
    /\ (pc = "done" /\ \E i \in 1..Len(doc) : doc[i].role = "page_break") =>
           LET block == SelectSeq(doc, IsReference)
           IN /\ Len(block) = Len(Definitions)
              /\ \A k \in 1..Len(Definitions) :
                    RunsText(block[k].runs) =
                        <<"[">> \o Str(k) \o <<"]", " ">> \o Definitions[k]

\* what does hold: the list is complete before the first block is
\* classified, and a manuscript whose one references heading is dispatched
\* has each entry in exactly one reference paragraph
OneHeadingDrainsOnce ==
    /\ pc \in {"loop", "done"} => ReferencesList = Definitions
    /\ (pc = "done"
          /\ Len(SelectSeq(doc, LAMBDA u : u.role = "page_break")) = 1) =>
           Len(SelectSeq(doc, IsReference)) = Len(Definitions)

---------------------------------------------------------------------------
(* The caption comment of a diagram block, checked under DiagramSpec *)

DiagramBlock(el) == el.name = "pre" /\ el.code_tag /\ el.mermaid

\* the step emits one text paragraph; no renderer call, no temporary file
PlaceholderWithoutRendering ==
    /\ pc' = "loop"
    /\ BodyKept
    /\ Len(Gained) = 1
    /\ Gained[1].kind = "p" /\ ~Gained[1].picture
    /\ RunsText(Gained[1].runs) # <<>>
    /\ renderer_calls' = renderer_calls
    /\ temp_files' = temp_files

\* the step hands the renderer, once, the block without its first line
\* (the one line "A", with or without its line end)
RenderedWithoutFirstLine ==
    /\ Len(renderer_calls') = Len(renderer_calls) + 1
    /\ SubSeq(renderer_calls', 1, Len(renderer_calls)) = renderer_calls
    /\ renderer_calls'[Len(renderer_calls')] \in {<<"A">>, <<"A", "\n">>}

\* C23: a diagram block whose first line is not a comment %%tu<label>
\* <caption> is emitted as exactly one text placeholder paragraph, the
\* renderer is not invoked and no temporary file is created; when the
\* comment is there, the renderer gets the text of the block with exactly
\* that first line removed.
C23_CaptionComment ==
    [][(AtNode /\ DiagramBlock(elements[idx + 1])) =>
          IF elements[idx + 1].code \in {CodeBare, CodeMalformed, CodeSplitLabel}
          THEN PlaceholderWithoutRendering
          ELSE RenderedWithoutFirstLine]_vars

\* what does hold: the same for the blocks whose label is not split over
\* the first two lines
CaptionCommentOnOneLine ==
    [][(AtNode /\ DiagramBlock(elements[idx + 1])
          /\ elements[idx + 1].code # CodeSplitLabel) =>
          IF elements[idx + 1].code \in {CodeBare, CodeMalformed}
          THEN PlaceholderWithoutRendering
          ELSE RenderedWithoutFirstLine]_vars

---------------------------------------------------------------------------
(* Termination of the traversal: TravSpec *)

TravNodes ==
    {H(1, ZhaiYao), H(1, ABSTRACT), H(1, ChapterOne), P(<<"zh">>), TextNode,
     TableRaw}

\* longest manuscript of TravSpec
MaxTravElems == 4

TravInit == ConvInit(SeqsUpTo(TravNodes, MaxTravElems), {<<>>})

\* markdown_to_word is sequential code, so whatever statement control stands
\* at is executed.  The three conditions below say so for the three places
\* control can stand at: each names the guard of one action of Next and the
\* move of control that action makes, so that its steps are exactly the
\* steps of that action that move pc or idx.

\* control at the top of markdown_to_word (line 542) enters the loop
Enters == pc = "start" /\ pc' = "loop"

\* line 574 with a true condition: the body runs, and ends back at the
\* while or in an exception
Iterates ==
    /\ pc = "loop"
    /\ idx < Len(elements)
    /\ pc' \in {"loop", "raised"}
    /\ idx' \in 0..(Len(elements) + 1)

\* line 574 with a false condition: control falls through to lines 857-874
Leaves == pc = "loop" /\ idx >= Len(elements) /\ pc' = "done"

TravSpec ==
    /\ TravInit
    /\ [][Next]_vars
    /\ WF_pc(Enters)
    /\ WF_<<pc, idx>>(Iterates)
    /\ WF_pc(Leaves)

\* C24: the traversal terminates for every finite sequence of top-level
\* nodes: every step of the main loop, with the abstract consumption it may
\* contain, strictly increases the traversal index (so no node is handled
\* twice), and unless an exception is raised the finalizer is reached.
C24_TraversalTerminates ==
    /\ [][pc = "loop" /\ pc' \in {"loop", "raised"} =>
             idx' > idx /\ idx' <= Len(elements) + 1]_vars
    /\ <>(pc \in {"done", "raised"})

\* both abstract loops ran, the second to the end of the list, and the
\* finalizer was reached
C24_Witness ==
    /\ pc = "done"
    /\ Len(elements) = 4
    /\ elements[1] = H(1, ZhaiYao)
    /\ elements[2] = P(<<"zh">>)
    /\ elements[3] = H(1, ABSTRACT)
    /\ idx >= Len(elements)

---------------------------------------------------------------------------
(* Level-1 headings that match no branch: OtherSpec *)

\* titles that fail every test of lines 586, 606, 643, 659 and 681: one that
\* starts with "di" without "zhang", one with "zhang" that does not start
\* with "di", one that only begins with "zhai yao", and Appendix
OtherTitles ==
    {Appendix, <<"di", "zh">>, <<"zh", "zhang">>, <<"zhai", "yao", "zh">>}

OtherNodes ==
    {H(1, t) : t \in OtherTitles \cup {ZhaiYao, ABSTRACT, ChapterOne}}
    \cup {P(<<"zh">>), TextNode}

\* longest manuscript of OtherSpec
MaxOtherElems == 3

OtherInit == ConvInit(SeqsUpTo(OtherNodes, MaxOtherElems), {<<>>})

OtherSpec == OtherInit /\ [][Next]_vars

OtherH1(el) == el.name = "h1" /\ el.text \in OtherTitles

\* the main loop classifies the node at the index and produces nothing
NothingProduced ==
    /\ doc' = doc
    /\ toc_items' = toc_items
    /\ main_text_started' = main_text_started
    /\ sections' = sections

\* C25: a level-1 heading whose text matches none of the five tests produces
\* no output unit and no table-of-contents entry and leaves
\* main_text_started and the sections as they are, and the node that follows
\* it is classified by the main loop: no step of the loop consumes it inside
\* an abstract block.
C25_OtherH1NoEffect ==
    [][AtNode =>
         /\ OtherH1(elements[idx + 1]) => NothingProduced
         /\ \A j \in (idx + 2)..idx' :
               j <= Len(elements) => ~OtherH1(elements[j - 1])]_vars

\* what does hold: such a heading, when the main loop classifies it,
\* produces nothing and hands the next node to the main loop
OtherH1Classified ==
    [][(AtNode /\ OtherH1(elements[idx + 1])) =>
          NothingProduced /\ idx' = idx + 1 /\ pc' = "loop"]_vars

\* what does hold: no node that follows such a heading is consumed by an
\* abstract block, unless the heading stands right after an ABSTRACT heading
OtherH1FollowersClassified ==
    [][AtNode =>
         \A j \in (idx + 2)..idx' :
            (j <= Len(elements) /\ OtherH1(elements[j - 1])) =>
               (j = idx + 3 /\ elements[idx + 1] = H(1, ABSTRACT))]_vars

=============================================================================
